---- MODULE Spec2Model ----
(***************************************************************************)
(* Layout segmentation engine of Test2img: LayoutAnalyzer.analyze_all_pages *)
(* (src/src/layout_analyzer.py) driving QuestionExtractor                  *)
(* (src/src/question_extractor.py) over the merged OCR lines of a document. *)
(*                                                                         *)
(* A merged line is [cls, num, y_min, y_max]: cls is the outcome of the    *)
(* PatternMatcher predicates on the line's text ("chinese", "sub",         *)
(* "nested", "other", "plain"), num the integer extract_nested_sub_number  *)
(* returns for a nested line (0 otherwise).                                *)
(* Question records are Python dicts shared by reference between the lists *)
(* that hold them, so they live in a heap (recs) and the lists hold ids.   *)
(* An optional field (absent key or Python None) is <<>>, a present value  *)
(* v is <<v>>.                                                             *)
(***************************************************************************)
EXTENDS Integers, Sequences, FiniteSets, TLC

\* ---------------------------------------------------------------- bounds
MaxPages == 2
MaxTotalLines == 4
MaxNum == 2
MaxDupPages == 1
MaxDupLines == 4
MaxDupNum == 2
MaxDup == 1
MaxCrossPages == 3
MaxCrossLines == 5
MaxCrossNum == 4
MaxHPages == 2
MaxHLines == 4
MaxHNum == 2
MaxHDup == 1
MaxFarPages == 4
MaxFarLines == 4
MaxFarNum == 3
MaxLongPages == 4
MaxLongLines == 6
MaxLongNum == 3
MaxRowPages == 1
MaxRowLines == 4
MaxRowNum == 2
MaxRowDup == 2
MaxTallPages == 1
MaxTallLines == 3
MaxTallNum == 1
MaxFragments == 3
MaxTextLen == 4
\* geometry of the generated lines (pixels)
LineGap == 30
LineH == 6
TallH == 30
PageH == 200
TallPageH == 300

\* ------------------------------------------------------- program constants
look_ahead_count == 3
ProbeLines == 3
ProbePages == 2

\* --------------------------------------------------------------- helpers
None == <<>>
Some(v) == <<v>>
IsNone(o) == o = <<>>
Val(o) == o[1]

Min2(a, b) == IF a <= b THEN a ELSE b
SeqMax(s) == CHOOSE m \in {s[i] : i \in 1..Len(s)} : \A i \in 1..Len(s) : s[i] <= m
SetMin(S) == CHOOSE m \in S : \A x \in S : m <= x

\* int(h * 0.97) and int(h * 0.3) on non-negative integers
PageBottom(h) == (97 * h) \div 100
\* faulty variant: no margin above the next record
Margin_None(h) == 0
Margin(h) == (3 * h) \div 10

VARIABLES
    images,                 \* page heights, images[p].height
    prefer_chinese_primary, \* config.question_primary_type != 'arabic'
    all_ocr_results,        \* page -> merged lines
    pc,                     \* position in analyze_all_pages
    page_idx,               \* page of the running loop
    idx,                    \* lines of the page already handled by the extractor
    recs,                   \* heap of question dicts
    questions,              \* extractor: ids emitted for the page
    seen_start_positions,
    current_question,       \* id, 0 for None
    is_chinese_question,
    nested_sub_numbers,
    all_questions,          \* <<page_num, id>> tuples
    pending_cross_page_question, \* None or <<id, from_page>>
    skipped,                \* <<page, line>> of the "duplicate position" diagnostics
    pending_seen,           \* history: None or <<the pending slot, its record>> as the resolver found them on the current page
    page_tail,              \* history: per extracted page, the open record and its numbers at the end of the page
    page_ocr_result,        \* merger: the recognizer's fragments of one page, in the recognizer's order
    merged_ocr_result,      \* merger: the value merge_same_line_texts returned
    line_text,              \* pattern matcher: the text of one line
    is_sub                  \* pattern matcher: None or the value is_sub_question returned

vars == <<images, prefer_chinese_primary, all_ocr_results, pc, page_idx, idx, recs,
          questions, seen_start_positions, current_question, is_chinese_question,
          nested_sub_numbers, all_questions, pending_cross_page_question, skipped,
          page_tail, pending_seen, page_ocr_result, merged_ocr_result, line_text, is_sub>>

total_pages == Len(images)

\* ------------------------------------------------------------ input lines
Line(cls, num, y_min, y_max) == [cls |-> cls, num |-> num, y_min |-> y_min, y_max |-> y_max]

\* A shape is a line before its coordinates are fixed: dup says that the line's
\* top edge is the one of the line before it (a taller box on the same row).
Shapes(classes, maxnum) ==
    {[cls |-> c, num |-> 0, dup |-> d] : c \in classes \ {"nested"}, d \in BOOLEAN}
    \cup {[cls |-> "nested", num |-> n, dup |-> d] : n \in 1..maxnum, d \in BOOLEAN}

RECURSIVE RowOf(_, _)
RowOf(f, i) == IF i = 1 THEN 1 ELSE RowOf(f, i - 1) + (IF f[i].dup THEN 0 ELSE 1)

\* the number of lines before line i that share its top edge
RECURSIVE DupRun(_, _)
DupRun(f, i) == IF i = 1 \/ ~f[i].dup THEN 0 ELSE 1 + DupRun(f, i - 1)

\* lines that share a top edge differ in height, each taller than the one before
MkLines(f) ==
    [i \in 1..Len(f) |->
        Line(f[i].cls, f[i].num, RowOf(f, i) * LineGap,
             RowOf(f, i) * LineGap + LineH + DupRun(f, i) * (TallH - LineH))]

NumDups(f) == Cardinality({i \in 1..Len(f) : f[i].dup})

PageShapes(classes, maxnum, n, dups) ==
    {f \in [1..n -> Shapes(classes, maxnum)] :
        /\ n > 0 => ~f[1].dup
        /\ \A i \in 2..n : f[i].dup => ~f[i - 1].dup
        /\ NumDups(f) <= dups}

\* pages on which any number of consecutive lines may share a top edge
RowShapes(classes, maxnum, n, dups) ==
    {f \in [1..n -> Shapes(classes, maxnum)] :
        /\ n > 0 => ~f[1].dup
        /\ NumDups(f) <= dups}

\* pages whose lines keep apart and are each of one of two heights
TallShapes(classes, maxnum, n) ==
    [1..n -> {[cls |-> c, num |-> 0, tall |-> t] :
                 c \in classes \ {"nested"}, t \in BOOLEAN}
             \cup {[cls |-> "nested", num |-> k, tall |-> t] :
                      k \in 1..maxnum, t \in BOOLEAN}]

MkTallLines(f) ==
    [i \in 1..Len(f) |->
        Line(f[i].cls, f[i].num, i * LineGap,
             i * LineGap + (IF f[i].tall THEN TallH ELSE LineH))]

RECURSIVE CountLines(_, _)
CountLines(res, p) == IF p = 0 THEN 0 ELSE CountLines(res, p - 1) + Len(res[p])

RECURSIVE CountDups(_, _)
CountDups(res, p) ==
    IF p = 0 THEN 0
    ELSE CountDups(res, p - 1)
         + Cardinality({i \in 2..Len(res[p]) : res[p][i].y_min = res[p][i - 1].y_min})

AllClasses == {"chinese", "sub", "nested", "other", "plain"}
CrossClasses == {"sub", "nested"}

\* ---------------------------------------------------------------- records
NewQuestion(y_pos, page_num, question_type, text_height) ==
    [start_y |-> y_pos, page |-> page_num, question_type |-> question_type,
     text_height |-> text_height, nested_sub_numbers |-> <<>>,
     early_end_y |-> None, cross_page |-> FALSE, cross_page_to |-> None,
     cross_page_merged |-> FALSE, cross_page_end_page |-> None,
     cross_page_end_y |-> None, end_y |-> None, end_page |-> None,
     potential_cross_page |-> FALSE]

\* ------------------------------------------------------------------- Init
InitOver(pages, modes, heights) ==
    /\ images \in UNION {[1..n -> {[height |-> h] : h \in heights}] : n \in pages}
    /\ prefer_chinese_primary \in modes
    /\ all_ocr_results = <<>>
    /\ pc = "collect"
    /\ page_idx = 1
    /\ idx = 0
    /\ recs = <<>>
    /\ questions = <<>>
    /\ seen_start_positions = {}
    /\ current_question = 0
    /\ is_chinese_question = FALSE
    /\ nested_sub_numbers = <<>>
    /\ all_questions = <<>>
    /\ pending_cross_page_question = None
    /\ skipped = {}
    /\ page_tail = <<>>
    /\ pending_seen = None
    /\ page_ocr_result = <<>>
    /\ merged_ocr_result = <<>>
    /\ line_text = <<>>
    /\ is_sub = None

InitWith(pages, modes) == InitOver(pages, modes, {PageH})

\* the default configuration (chinese-primary), documents of any line class
Init == InitWith(0..MaxPages, {TRUE})
\* both primary types, pages with lines that share a top edge
InitDup == InitWith(0..MaxDupPages, BOOLEAN)
\* longer documents of numbered stems and nested items
InitCross == InitWith(1..MaxCrossPages, {TRUE})
\* documents long enough for a continuation two pages ahead
InitFar == InitWith(1..MaxFarPages, {TRUE})
\* four-page documents with room for a second numbered stem
InitLong == InitWith({MaxLongPages}, {TRUE})
\* both primary types, pages with several lines on one row
InitRow == InitWith(0..MaxRowPages, BOOLEAN)
\* the default configuration, pages with short and tall lines
InitTall == InitWith(0..MaxTallPages, {TRUE})
\* pages of two heights, lines of two heights
InitHeights == InitOver(1..MaxHPages, {TRUE}, {PageH, TallPageH})

\* --------------------------------------------------- step 1: OCR collection
\* One iteration of the first loop of analyze_all_pages: analyze_page returns
\* the merged lines of the page (the recognizer's answer is the environment's).
CollectWith(classes, maxnum, maxtotal, maxdup) ==
    /\ pc = "collect"
    /\ Len(all_ocr_results) < total_pages
    /\ \E n \in 0..(maxtotal - CountLines(all_ocr_results, Len(all_ocr_results))) :
         \E f \in PageShapes(classes, maxnum, n,
                             maxdup - CountDups(all_ocr_results, Len(all_ocr_results))) :
            all_ocr_results' = Append(all_ocr_results, MkLines(f))
    /\ UNCHANGED <<pending_seen, page_ocr_result, merged_ocr_result, line_text, is_sub>>
    /\ UNCHANGED <<images, prefer_chinese_primary, pc, page_idx, idx, recs, questions,
                   seen_start_positions, current_question, is_chinese_question,
                   nested_sub_numbers, all_questions, pending_cross_page_question,
                   skipped, page_tail>>

\* analyze_page returning a page with up to MaxRowDup lines on the row of another
CollectRowPage ==
    /\ pc = "collect"
    /\ Len(all_ocr_results) < total_pages
    /\ \E n \in 0..(MaxRowLines - CountLines(all_ocr_results, Len(all_ocr_results))) :
         \E f \in RowShapes(AllClasses, MaxRowNum, n,
                            MaxRowDup - CountDups(all_ocr_results, Len(all_ocr_results))) :
            all_ocr_results' = Append(all_ocr_results, MkLines(f))
    /\ UNCHANGED <<pending_seen, page_ocr_result, merged_ocr_result, line_text, is_sub>>
    /\ UNCHANGED <<images, prefer_chinese_primary, pc, page_idx, idx, recs, questions,
                   seen_start_positions, current_question, is_chinese_question,
                   nested_sub_numbers, all_questions, pending_cross_page_question,
                   skipped, page_tail>>

\* analyze_page returning a page with short and tall lines
CollectTallPage ==
    /\ pc = "collect"
    /\ Len(all_ocr_results) < total_pages
    /\ \E n \in 0..(MaxTallLines - CountLines(all_ocr_results, Len(all_ocr_results))) :
         \E f \in TallShapes(AllClasses, MaxTallNum, n) :
            all_ocr_results' = Append(all_ocr_results, MkTallLines(f))
    /\ UNCHANGED <<pending_seen, page_ocr_result, merged_ocr_result, line_text, is_sub>>
    /\ UNCHANGED <<images, prefer_chinese_primary, pc, page_idx, idx, recs, questions,
                   seen_start_positions, current_question, is_chinese_question,
                   nested_sub_numbers, all_questions, pending_cross_page_question,
                   skipped, page_tail>>

CollectPage == CollectWith(AllClasses, MaxNum, MaxTotalLines, 0)
CollectDupPage == CollectWith(AllClasses, MaxDupNum, MaxDupLines, MaxDup)
CollectCrossPage == CollectWith(CrossClasses, MaxCrossNum, MaxCrossLines, 0)
CollectHeightsPage == CollectWith(AllClasses, MaxHNum, MaxHLines, MaxHDup)
CollectFarPage == CollectWith(CrossClasses, MaxFarNum, MaxFarLines, 0)
CollectLongPage == CollectWith(CrossClasses, MaxLongNum, MaxLongLines, 0)

StartExtraction ==
    /\ pc = "collect"
    /\ Len(all_ocr_results) = total_pages
    /\ pc' = IF total_pages = 0 THEN "flush" ELSE "page"
    /\ page_idx' = 1
    /\ UNCHANGED <<pending_seen, page_ocr_result, merged_ocr_result, line_text, is_sub>>
    /\ UNCHANGED <<images, prefer_chinese_primary, all_ocr_results, idx, recs, questions,
                   seen_start_positions, current_question, is_chinese_question,
                   nested_sub_numbers, all_questions, pending_cross_page_question,
                   skipped, page_tail>>

\* ------------------------------------------- step 2: the boundary extractor
IsNextNested(line, nested_number) == line.cls = "nested" /\ line.num = nested_number + 1

\* faulty variant: the look-ahead stops at the end of the page
CheckNextNestedSubQuestion_SamePage(current_idx, ocr_result, nested_number, page_num) ==
    LET window == (current_idx + 1)..Min2(Len(ocr_result), current_idx + look_ahead_count)
    IN  [found_next_nested |-> \E i \in window : IsNextNested(ocr_result[i], nested_number),
         cross_page |-> FALSE,
         cross_page_to |-> None,
         early_end_y |-> IF window = {} \/ IsNextNested(ocr_result[current_idx + 1], nested_number)
                         THEN None
                         ELSE Some(ocr_result[current_idx + 1].y_min),
         read |-> {<<page_num, i>> : i \in window}]

\* faulty variant: the next page gets a window of its own
CheckNextNestedSubQuestion_FreshWindow(current_idx, ocr_result, nested_number, page_num) ==
    LET window == (current_idx + 1)..Min2(Len(ocr_result), current_idx + look_ahead_count)
        hits == {i \in window : IsNextNested(ocr_result[i], nested_number)}
        next_page_num == page_num + 1
        next_page_ocr == IF next_page_num <= total_pages
                         THEN all_ocr_results[next_page_num] ELSE <<>>
        next_window == 1..Min2(look_ahead_count, Len(next_page_ocr))
        found_next_page ==
            hits = {} /\ \E j \in next_window : IsNextNested(next_page_ocr[j], nested_number)
    IN  [found_next_nested |-> hits # {} \/ found_next_page,
         cross_page |-> found_next_page,
         cross_page_to |-> IF found_next_page THEN Some(next_page_num) ELSE None,
         early_end_y |-> IF found_next_page \/ window = {}
                            \/ IsNextNested(ocr_result[current_idx + 1], nested_number)
                         THEN None
                         ELSE Some(ocr_result[current_idx + 1].y_min),
         read |-> {<<page_num, i>> : i \in window}
                  \cup (IF hits = {} THEN {<<next_page_num, j>> : j \in next_window} ELSE {})]

\* _check_next_nested_sub_question: current_idx is the (1-based) place of the
\* accepted nested line in ocr_result.
CheckNextNestedSubQuestion(current_idx, ocr_result, nested_number, page_num) ==
    LET current_page_lines_remaining == Len(ocr_result) - current_idx
        lines_to_check_current_page == Min2(look_ahead_count, current_page_lines_remaining)
        window == (current_idx + 1)..(current_idx + lines_to_check_current_page)
        hits == {i \in window : IsNextNested(ocr_result[i], nested_number)}
        found_here == hits # {}
        \* the first line of the window is recorded unless it is the match itself
        early_end_y == IF window = {} \/ IsNextNested(ocr_result[current_idx + 1], nested_number)
                       THEN None
                       ELSE Some(ocr_result[current_idx + 1].y_min)
        checked_lines == IF found_here THEN SetMin(hits) - current_idx - 1
                         ELSE lines_to_check_current_page
        remaining_lines_to_check == look_ahead_count - checked_lines
        next_page_num == page_num + 1
        next_page_ocr == IF next_page_num <= total_pages
                         THEN all_ocr_results[next_page_num] ELSE <<>>
        next_window == IF ~found_here /\ checked_lines < look_ahead_count
                          /\ next_page_num <= total_pages
                       THEN 1..Min2(remaining_lines_to_check, Len(next_page_ocr))
                       ELSE {}
        next_hits == {j \in next_window : IsNextNested(next_page_ocr[j], nested_number)}
        found_next_page ==
            /\ ~found_here
            /\ checked_lines < look_ahead_count
            /\ next_page_num <= total_pages
            /\ \E j \in 1..Min2(remaining_lines_to_check, Len(next_page_ocr)) :
                  IsNextNested(next_page_ocr[j], nested_number)
        \* the lines the two loops take up, each loop up to its first match
        read == {<<page_num, i>> : i \in {k \in window : \A h \in hits : k <= h}}
                \cup {<<next_page_num, j>> :
                         j \in {k \in next_window : \A h \in next_hits : k <= h}}
    IN  IF found_next_page
        THEN [found_next_nested |-> TRUE, cross_page |-> TRUE,
              cross_page_to |-> Some(next_page_num), early_end_y |-> None,
              read |-> read]
        ELSE [found_next_nested |-> found_here, cross_page |-> FALSE,
              cross_page_to |-> None, early_end_y |-> early_end_y,
              read |-> read]

\* faulty variant: the duplicate-position guard never fires
IsDuplicatePosition_Off(seen, y_pos) == FALSE

\* y_pos in seen_start_positions (the duplicate-position guard)
IsDuplicatePosition(seen, y_pos) == y_pos \in seen

\* The extractor's locals as one value: heap, emitted ids, seen set, open record,
\* is_chinese_question, nested_sub_numbers, and whether the line was skipped as a
\* duplicate position.
ExtractorState ==
    [recs |-> recs, questions |-> questions, seen |-> seen_start_positions,
     cq |-> current_question, chin |-> is_chinese_question,
     nested |-> nested_sub_numbers, skip |-> FALSE]

EmitCurrent(x) == IF x.cq # 0 THEN [x EXCEPT !.questions = Append(@, x.cq)] ELSE x

OpenQuestion(x, line, page_num, question_type) ==
    [x EXCEPT !.recs = Append(@, NewQuestion(line.y_min, page_num, question_type,
                                             line.y_max - line.y_min)),
              !.cq = Len(x.recs) + 1,
              !.seen = @ \cup {line.y_min},
              !.chin = (question_type = "chinese"),
              !.nested = <<>>]

\* if is_current_chinese: (prefer_chinese_primary branch and the arabic branch)
OnChineseNumber(x, line, page_num) ==
    IF prefer_chinese_primary
    THEN LET x1 == [EmitCurrent(x) EXCEPT !.nested = <<>>]
         IN  IF IsDuplicatePosition(x.seen, line.y_min)
             THEN [x1 EXCEPT !.skip = TRUE]
             ELSE OpenQuestion(x1, line, page_num, "chinese")
    ELSE LET boundary_y == line.y_min
             x1 == IF x.cq = 0 THEN x
                   ELSE [EmitCurrent(
                           IF boundary_y > x.recs[x.cq].start_y
                           THEN [x EXCEPT !.recs[x.cq].early_end_y = Some(boundary_y)]
                           ELSE x)
                         EXCEPT !.cq = 0]
         IN  [x1 EXCEPT !.nested = <<>>, !.chin = FALSE]

\* faulty variant: a sub line under a chinese question opens a record of its own
ContinuesMajor_Off(x) == FALSE

\* a sub line continues the open chinese question instead of opening a record
ContinuesMajor(x) == prefer_chinese_primary /\ x.chin /\ x.cq # 0

\* faulty variant: a sub line stamps its y on the record it closes
OnSubQuestion_Boundary(x, line, page_num) ==
    IF ContinuesMajor(x) THEN x
    ELSE LET x0 == IF x.cq # 0
                   THEN [x EXCEPT !.recs[x.cq].early_end_y = Some(line.y_min)]
                   ELSE x
             x1 == EmitCurrent(x0)
         IN  IF IsDuplicatePosition(x.seen, line.y_min)
             THEN [x1 EXCEPT !.skip = TRUE]
             ELSE OpenQuestion(x1, line, page_num, "sub")

\* if is_current_sub:
OnSubQuestion(x, line, page_num) ==
    IF ContinuesMajor(x) THEN x
    ELSE LET x1 == EmitCurrent(x)
         IN  IF IsDuplicatePosition(x.seen, line.y_min)
             THEN [x1 EXCEPT !.skip = TRUE]
             ELSE OpenQuestion(x1, line, page_num, "sub")

\* faulty variant: the look-ahead's boundary is stored without comparing it with start_y
StoreEarlyEnd_NoStartCheck(q, early_end_y) ==
    IF q.cross_page \/ IsNone(early_end_y) THEN q
    ELSE IF IsNone(q.early_end_y) \/ Val(early_end_y) < Val(q.early_end_y)
         THEN [q EXCEPT !.early_end_y = early_end_y]
         ELSE q

\* the early_end_y update of an accepted nested line whose successor was not found
StoreEarlyEnd(q, early_end_y) ==
    IF q.cross_page \/ IsNone(early_end_y) THEN q
    ELSE IF Val(early_end_y) > q.start_y
         THEN IF IsNone(q.early_end_y)
              THEN [q EXCEPT !.early_end_y = early_end_y]
              ELSE IF Val(early_end_y) < Val(q.early_end_y)
                   THEN [q EXCEPT !.early_end_y = early_end_y]
                   ELSE q
         ELSE q

\* faulty variant: a nested line met with no open record opens one
OnNested_Orphan(x, line, current_idx, ocr_result, page_num) ==
    IF x.cq = 0 THEN OpenQuestion(x, line, page_num, "other") ELSE x

\* faulty variant: the cross-page answer of the look-ahead is not written to the record
OnNested_NoFlag(x, line, current_idx, ocr_result, page_num) ==
    IF x.cq = 0 THEN x
    ELSE LET nested_number == line.num
             numbers == Append(x.nested, nested_number)
             early_end_info == CheckNextNestedSubQuestion(current_idx, ocr_result,
                                                          nested_number, page_num)
             q0 == [x.recs[x.cq] EXCEPT !.nested_sub_numbers = numbers]
             q2 == IF ~early_end_info.found_next_nested
                   THEN StoreEarlyEnd(q0, early_end_info.early_end_y)
                   ELSE q0
         IN  [x EXCEPT !.nested = numbers, !.recs[x.cq] = q2]

\* faulty variant: the look-ahead's boundary is stored although n+1 was found
OnNested_StoreAlways(x, line, current_idx, ocr_result, page_num) ==
    IF x.cq = 0 THEN x
    ELSE LET nested_number == line.num
             numbers == Append(x.nested, nested_number)
             early_end_info == CheckNextNestedSubQuestion(current_idx, ocr_result,
                                                          nested_number, page_num)
             q0 == [x.recs[x.cq] EXCEPT !.nested_sub_numbers = numbers]
             q1 == IF early_end_info.cross_page
                   THEN [q0 EXCEPT !.cross_page = TRUE,
                                   !.cross_page_to = early_end_info.cross_page_to]
                   ELSE q0
         IN  [x EXCEPT !.nested = numbers,
                       !.recs[x.cq] = StoreEarlyEnd(q1, early_end_info.early_end_y)]

\* if is_current_nested:
OnNested(x, line, current_idx, ocr_result, page_num) ==
    IF x.cq = 0 THEN x
    ELSE LET nested_number == line.num
             numbers == Append(x.nested, nested_number)
             early_end_info == CheckNextNestedSubQuestion(current_idx, ocr_result,
                                                          nested_number, page_num)
             q0 == [x.recs[x.cq] EXCEPT !.nested_sub_numbers = numbers]
             q1 == IF early_end_info.cross_page
                   THEN [q0 EXCEPT !.cross_page = TRUE,
                                   !.cross_page_to = early_end_info.cross_page_to]
                   ELSE q0
             q2 == IF ~early_end_info.found_next_nested
                   THEN StoreEarlyEnd(q1, early_end_info.early_end_y)
                   ELSE q1
         IN  [x EXCEPT !.nested = numbers, !.recs[x.cq] = q2]

\* faulty variant: a question-type header leaves the stored boundary as it is
CorrectEarlyEnd_Off(q, y_pos) == q

\* the correction of the open record's early_end_y by a question-type header
CorrectEarlyEnd(q, y_pos) ==
    IF ~IsNone(q.early_end_y) /\ y_pos < Val(q.early_end_y)
    THEN [q EXCEPT !.early_end_y = Some(y_pos)]
    ELSE q

\* if matches_pattern(line_text, 'question'):
OnOtherQuestion(x, line, page_num) ==
    LET x0 == IF x.cq # 0
              THEN [x EXCEPT !.recs[x.cq] = CorrectEarlyEnd(@, line.y_min)]
              ELSE x
        x1 == EmitCurrent(x0)
    IN  IF IsDuplicatePosition(x.seen, line.y_min)
        THEN [x1 EXCEPT !.skip = TRUE]
        ELSE OpenQuestion(x1, line, page_num, "other")

LineStep(x, line, current_idx, ocr_result, page_num) ==
    CASE line.cls = "chinese" -> OnChineseNumber(x, line, page_num)
      [] line.cls = "sub"     -> OnSubQuestion(x, line, page_num)
      [] line.cls = "nested"  -> OnNested(x, line, current_idx, ocr_result, page_num)
      [] line.cls = "other"   -> OnOtherQuestion(x, line, page_num)
      [] OTHER                -> x

\* One iteration of the extractor's loop over the lines of page_idx.
ExtractLine ==
    /\ pc = "lines"
    /\ idx < Len(all_ocr_results[page_idx])
    /\ LET ocr_result == all_ocr_results[page_idx]
           x == LineStep(ExtractorState, ocr_result[idx + 1], idx + 1, ocr_result, page_idx)
       IN  /\ recs' = x.recs
           /\ questions' = x.questions
           /\ seen_start_positions' = x.seen
           /\ current_question' = x.cq
           /\ is_chinese_question' = x.chin
           /\ nested_sub_numbers' = x.nested
           /\ skipped' = IF x.skip THEN skipped \cup {<<page_idx, idx + 1>>} ELSE skipped
    /\ idx' = idx + 1
    /\ UNCHANGED <<pending_seen, page_ocr_result, merged_ocr_result, line_text, is_sub>>
    /\ UNCHANGED <<images, prefer_chinese_primary, all_ocr_results, pc, page_idx,
                   all_questions, pending_cross_page_question, page_tail>>

\* ------------------------------------------ step 2: cross-page merge resolver
IsNestedNumber(line, n) == line.cls = "nested" /\ line.num = n

\* the scan of the current page for the in-sequence nested numbers
RECURSIVE MergeInSequence(_, _, _, _)
MergeInSequence(numbers, ocr_result, i, expected_next_number) ==
    IF i > Len(ocr_result) THEN numbers
    ELSE IF IsNestedNumber(ocr_result[i], expected_next_number)
         THEN MergeInSequence(Append(numbers, expected_next_number), ocr_result, i + 1,
                              expected_next_number + 1)
         ELSE MergeInSequence(numbers, ocr_result, i + 1, expected_next_number)

ExpectedNext(numbers) == IF numbers # <<>> THEN SeqMax(numbers) + 1 ELSE 1

MergedOnPage(numbers, ocr_result) ==
    MergeInSequence(numbers, ocr_result, 1, ExpectedNext(numbers))

\* faulty variant: only the next page is probed
ContinuationPages_NextOnly(page_num, n) ==
    {check_page_num \in (page_num + 1)..Min2(page_num + 1, total_pages) :
        \E k \in 1..Min2(ProbeLines, Len(all_ocr_results[check_page_num])) :
            IsNestedNumber(all_ocr_results[check_page_num][k], n)}

\* the pages after page_num whose leading lines hold the nested number n
ContinuationPages(page_num, n) ==
    {check_page_num \in (page_num + 1)..Min2(page_num + ProbePages, total_pages) :
        \E k \in 1..Min2(ProbeLines, Len(all_ocr_results[check_page_num])) :
            IsNestedNumber(all_ocr_results[check_page_num][k], n)}

\* faulty variant: the merge is marked complete without popping cross_page
FinalizeMerge_KeepFlag(q, page_num, final_page_ocr) ==
    [q EXCEPT !.cross_page_merged = TRUE, !.cross_page_end_page = Some(page_num)]

\* faulty variant: the merge is marked complete without looking for the last item's line
FinalizeMerge_NoEndY(q, page_num, final_page_ocr) ==
    [q EXCEPT !.cross_page = FALSE,
              !.cross_page_to = None,
              !.cross_page_merged = TRUE,
              !.cross_page_end_page = Some(page_num)]

\* the merge is complete: the record leaves the pending slot
FinalizeMerge(q, page_num, final_page_ocr) ==
    LET last_nested_num == SeqMax(q.nested_sub_numbers)
        at == {i \in 1..Len(final_page_ocr) : IsNestedNumber(final_page_ocr[i], last_nested_num)}
    IN  [q EXCEPT !.cross_page = FALSE,
                  !.cross_page_to = None,
                  !.cross_page_end_y = IF q.nested_sub_numbers # <<>> /\ at # {}
                                       THEN Some(final_page_ocr[SetMin(at)].y_max)
                                       ELSE @,
                  !.cross_page_merged = TRUE,
                  !.cross_page_end_page = Some(page_num)]

\* faulty variant: a page without lines abandons the pending merge
ResolvePending_Abandon(page_num) ==
    IF IsNone(pending_cross_page_question) \/ all_ocr_results[page_num] # <<>>
    THEN [recs |-> recs, all_questions |-> all_questions,
          pending |-> pending_cross_page_question]
    ELSE [recs |-> recs,
          all_questions |-> Append(all_questions, <<pending_cross_page_question[2],
                                                    pending_cross_page_question[1]>>),
          pending |-> None]

\* if pending_cross_page_question: ... at the top of the page loop
ResolvePending(page_num) ==
    LET keep == [recs |-> recs, all_questions |-> all_questions,
                 pending |-> pending_cross_page_question]
    IN  IF IsNone(pending_cross_page_question) THEN keep
        ELSE LET id == pending_cross_page_question[1]
                 cross_page_from_page == pending_cross_page_question[2]
                 q == recs[id]
                 cross_page_to_page == IF IsNone(q.cross_page_to) THEN page_num
                                       ELSE Val(q.cross_page_to)
                 ocr_result == all_ocr_results[page_num]
                 numbers == MergedOnPage(q.nested_sub_numbers, ocr_result)
                 merged_count == Len(numbers) - Len(q.nested_sub_numbers)
                 q1 == [q EXCEPT !.nested_sub_numbers = numbers]
                 more == ContinuationPages(page_num, ExpectedNext(numbers))
             IN  IF page_num >= cross_page_to_page /\ merged_count > 0
                 THEN IF more # {}
                      THEN [keep EXCEPT !.recs[id] =
                                [q1 EXCEPT !.cross_page_to = Some(SetMin(more))]]
                      ELSE [recs |-> [recs EXCEPT ![id] = FinalizeMerge(q1, page_num, ocr_result)],
                            all_questions |-> Append(all_questions, <<cross_page_from_page, id>>),
                            pending |-> None]
                 ELSE keep

\* The top of one iteration of the page loop: the pending merge is tried on the
\* page, then the extractor starts on it with fresh locals.
BeginPage ==
    /\ pc = "page"
    /\ page_idx <= total_pages
    /\ LET r == ResolvePending(page_idx)
       IN  /\ recs' = r.recs
           /\ all_questions' = r.all_questions
           /\ pending_cross_page_question' = r.pending
    /\ questions' = <<>>
    /\ seen_start_positions' = {}
    /\ current_question' = 0
    /\ is_chinese_question' = FALSE
    /\ nested_sub_numbers' = <<>>
    /\ idx' = 0
    /\ pc' = "lines"
    /\ pending_seen' = IF IsNone(pending_cross_page_question) THEN None
                       ELSE <<pending_cross_page_question,
                              recs[pending_cross_page_question[1]]>>
    /\ UNCHANGED <<page_ocr_result, merged_ocr_result, line_text, is_sub>>
    /\ UNCHANGED <<images, prefer_chinese_primary, all_ocr_results, page_idx, skipped,
                   page_tail>>

\* for q in questions: the cross_page records go to the pending slot, the
\* others to all_questions
RECURSIVE Dispatch(_, _, _, _)
Dispatch(qs, i, page_num, acc) ==
    IF i > Len(qs) THEN acc
    ELSE Dispatch(qs, i + 1, page_num,
                  IF recs[qs[i]].cross_page
                  THEN [acc EXCEPT !.pending = <<qs[i], page_num>>]
                  ELSE [acc EXCEPT !.all_questions = Append(@, <<page_num, qs[i]>>)])

\* The extractor returns (its last open record is emitted) and the page's
\* records are dispatched; the loop moves to the next page.
FinishPage ==
    /\ pc = "lines"
    /\ idx = Len(all_ocr_results[page_idx])
    /\ LET returned == IF current_question # 0 THEN Append(questions, current_question)
                       ELSE questions
           d == Dispatch(returned, 1, page_idx,
                         [all_questions |-> all_questions,
                          pending |-> pending_cross_page_question])
       IN  /\ questions' = returned
           /\ all_questions' = d.all_questions
           /\ pending_cross_page_question' = d.pending
    /\ page_tail' = Append(page_tail,
                           [open |-> current_question,
                            numbers |-> IF current_question # 0
                                        THEN recs[current_question].nested_sub_numbers
                                        ELSE <<>>])
    /\ page_idx' = page_idx + 1
    /\ pc' = IF page_idx = total_pages THEN "flush" ELSE "page"
    /\ UNCHANGED <<pending_seen, page_ocr_result, merged_ocr_result, line_text, is_sub>>
    /\ UNCHANGED <<images, prefer_chinese_primary, all_ocr_results, idx, recs,
                   seen_start_positions, current_question, is_chinese_question,
                   nested_sub_numbers, skipped>>

\* if pending_cross_page_question: after the page loop
FlushPending ==
    /\ pc = "flush"
    /\ all_questions' = IF IsNone(pending_cross_page_question) THEN all_questions
                        ELSE Append(all_questions, <<pending_cross_page_question[2],
                                                     pending_cross_page_question[1]>>)
    /\ pc' = "refine"
    /\ UNCHANGED <<pending_seen, page_ocr_result, merged_ocr_result, line_text, is_sub>>
    /\ UNCHANGED <<images, prefer_chinese_primary, all_ocr_results, page_idx, idx, recs,
                   questions, seen_start_positions, current_question,
                   is_chinese_question, nested_sub_numbers,
                   pending_cross_page_question, skipped, page_tail>>

\* ------------------------------------------- step 3: text-height refinement
\* the minimum positive line height among the lines of the record's page from
\* start_y on (up to the first line beyond a set, non-zero end_y)
RefineTextHeight(q, ocr_result) ==
    LET inside(i) == ocr_result[i].y_min >= q.start_y
        beyond == {i \in 1..Len(ocr_result) :
                     /\ inside(i)
                     /\ ~IsNone(q.end_y) /\ Val(q.end_y) # 0
                     /\ ocr_result[i].y_min > Val(q.end_y)}
        stop == IF beyond = {} THEN Len(ocr_result) + 1 ELSE SetMin(beyond)
        line_heights == {ocr_result[i].y_max - ocr_result[i].y_min :
                            i \in {j \in 1..(stop - 1) : inside(j)}} \ {h \in Int : h <= 0}
    IN  IF line_heights # {} THEN [q EXCEPT !.text_height = SetMin(line_heights)] ELSE q

RECURSIVE RefineAll(_, _)
RefineAll(rs, i) ==
    IF i > Len(all_questions) THEN rs
    ELSE LET page_num == all_questions[i][1]
             id == all_questions[i][2]
         IN  RefineAll([rs EXCEPT ![id] = RefineTextHeight(@, all_ocr_results[page_num])],
                       i + 1)

RefineTextHeights ==
    /\ pc = "refine"
    /\ recs' = RefineAll(recs, 1)
    /\ pc' = "ends"
    /\ UNCHANGED <<pending_seen, page_ocr_result, merged_ocr_result, line_text, is_sub>>
    /\ UNCHANGED <<images, prefer_chinese_primary, all_ocr_results, page_idx, idx,
                   questions, seen_start_positions, current_question,
                   is_chinese_question, nested_sub_numbers, all_questions,
                   pending_cross_page_question, skipped, page_tail>>

\* ------------------------------------------------- step 4: end resolution
\* if question.get('cross_page_merged'):
MergedEndRule(q, page_num) ==
    LET cross_page_end_page == IF IsNone(q.cross_page_end_page) THEN page_num
                               ELSE Val(q.cross_page_end_page)
        end_page_height == IF cross_page_end_page <= Len(images)
                           THEN images[cross_page_end_page].height
                           ELSE images[page_num].height
    IN  [q EXCEPT !.end_y = IF ~IsNone(q.cross_page_end_y) THEN q.cross_page_end_y
                            ELSE Some(PageBottom(end_page_height)),
                  !.end_page = Some(cross_page_end_page)]

\* faulty variant: an unmerged cross_page record is left for a later merge
CrossPageEndRule_Skip(q, page_num) == q

\* faulty variant: an unmerged cross_page record runs to the end of the document
CrossPageEndRule_LastPage(q, page_num) ==
    [q EXCEPT !.end_y = Some(PageBottom(images[total_pages].height)),
              !.end_page = Some(total_pages)]

\* elif question.get('cross_page'):
CrossPageEndRule(q, page_num) ==
    [q EXCEPT !.end_y = Some(PageBottom(images[page_num].height)),
              !.end_page = Some(page_num)]

\* faulty variant: the margin is applied by rewriting the stored boundary
EarlyEndRule_Shift(q, page_num) ==
    IF Val(q.early_end_y) > q.start_y
    THEN [q EXCEPT !.early_end_y = Some(Val(@) - Margin(q.text_height)),
                   !.end_y = Some(Val(q.early_end_y) - Margin(q.text_height)),
                   !.end_page = Some(page_num)]
    ELSE [q EXCEPT !.early_end_y = None]

\* elif question.get('early_end_y') is not None:
EarlyEndRule(q, page_num) ==
    IF Val(q.early_end_y) > q.start_y
    THEN [q EXCEPT !.end_y = q.early_end_y, !.end_page = Some(page_num)]
    ELSE [q EXCEPT !.early_end_y = None]

\* the next-record and page-bottom rules; nxt is None or <<next_page, next_q>>
RegularEndRule(q, page_num, nxt) ==
    IF ~IsNone(nxt)
    THEN IF nxt[1] = page_num
         THEN [q EXCEPT !.end_y = Some(nxt[2].start_y - Margin(nxt[2].text_height)),
                        !.end_page = Some(page_num)]
         ELSE [q EXCEPT !.end_y = Some(PageBottom(images[page_num].height)),
                        !.end_page = Some(page_num),
                        !.potential_cross_page = TRUE]
    ELSE [q EXCEPT !.end_y = Some(PageBottom(images[page_num].height)),
                   !.end_page = Some(Len(images))]

\* faulty variant: a stored early_end_y is looked at before the cross-page flags
ResolveEndOf_EarlyFirst(rs, i) ==
    LET page_num == all_questions[i][1]
        id == all_questions[i][2]
        q == rs[id]
        q1 == IF ~IsNone(q.early_end_y) THEN EarlyEndRule(q, page_num)
              ELSE IF q.cross_page_merged THEN MergedEndRule(q, page_num)
              ELSE IF q.cross_page THEN CrossPageEndRule(q, page_num)
              ELSE q
        rs1 == [rs EXCEPT ![id] = q1]
        nxt == IF i + 1 <= Len(all_questions)
               THEN <<all_questions[i + 1][1], rs1[all_questions[i + 1][2]]>>
               ELSE None
    IN  IF IsNone(q1.early_end_y) /\ ~q1.cross_page /\ ~q1.cross_page_merged
        THEN [rs1 EXCEPT ![id] = RegularEndRule(q1, page_num, nxt)]
        ELSE rs1

\* one iteration of the loop over all_questions
ResolveEndOf(rs, i) ==
    LET page_num == all_questions[i][1]
        id == all_questions[i][2]
        q == rs[id]
        q1 == IF q.cross_page_merged THEN MergedEndRule(q, page_num)
              ELSE IF q.cross_page THEN CrossPageEndRule(q, page_num)
              ELSE IF ~IsNone(q.early_end_y) THEN EarlyEndRule(q, page_num)
              ELSE q
        rs1 == [rs EXCEPT ![id] = q1]
        nxt == IF i + 1 <= Len(all_questions)
               THEN <<all_questions[i + 1][1], rs1[all_questions[i + 1][2]]>>
               ELSE None
    IN  IF IsNone(q1.early_end_y) /\ ~q1.cross_page /\ ~q1.cross_page_merged
        THEN [rs1 EXCEPT ![id] = RegularEndRule(q1, page_num, nxt)]
        ELSE rs1

RECURSIVE ResolveAll(_, _)
ResolveAll(rs, i) ==
    IF i > Len(all_questions) THEN rs ELSE ResolveAll(ResolveEndOf(rs, i), i + 1)

ResolveEnds ==
    /\ pc = "ends"
    /\ recs' = ResolveAll(recs, 1)
    /\ pc' = "done"
    /\ UNCHANGED <<pending_seen, page_ocr_result, merged_ocr_result, line_text, is_sub>>
    /\ UNCHANGED <<images, prefer_chinese_primary, all_ocr_results, page_idx, idx,
                   questions, seen_start_positions, current_question,
                   is_chinese_question, nested_sub_numbers, all_questions,
                   pending_cross_page_question, skipped, page_tail>>

\* The end-resolution loop applied once more to the list it has finalized.
ResolveEndsAgain ==
    /\ pc = "done"
    /\ recs' = ResolveAll(recs, 1)
    /\ pc' = "redone"
    /\ UNCHANGED <<pending_seen, page_ocr_result, merged_ocr_result, line_text, is_sub>>
    /\ UNCHANGED <<images, prefer_chinese_primary, all_ocr_results, page_idx, idx,
                   questions, seen_start_positions, current_question,
                   is_chinese_question, nested_sub_numbers, all_questions,
                   pending_cross_page_question, skipped, page_tail>>

\* ------------------------------------------------------------ line merger
\* OCRTextMerger: a fragment is [box, (text, confidence)], box the four corner
\* points <<x, y>>; the text of a fragment is a sequence of tokens. The
\* confidence is carried by no decision of the merger and is left out.
line_y_threshold == 10

Fragment(box, t) == [box |-> box, text |-> t]
XMin(box) == SetMin({box[k][1] : k \in 1..4})
XMax(box) == SeqMax([k \in 1..4 |-> box[k][1]])
YMin(box) == SetMin({box[k][2] : k \in 1..4})
YMax(box) == SeqMax([k \in 1..4 |-> box[k][2]])
\* four times np.mean(y_coords)
YCenter4(box) == box[1][2] + box[2][2] + box[3][2] + box[4][2]
Abs(n) == IF n < 0 THEN -n ELSE n

\* sorted(s, key=Key): Python's sort is stable
\* keys[i] is the key of s[i]
Rank(keys, i) ==
    1 + Cardinality({j \in 1..Len(keys) :
                        \/ keys[j] < keys[i]
                        \/ (keys[j] = keys[i] /\ j < i)})
Sorted(s, keys) ==
    [r \in 1..Len(s) |-> s[CHOOSE i \in 1..Len(s) : Rank(keys, i) = r]]

TopOf(line_data) == YMin(line_data.box)
LeftOf(info) == XMin(info.box)

\* faulty variant: the fragments are taken in the recognizer's order
SortByTop_Off(s) == s

\* sorted_result = sorted(ocr_result, key=lambda x: min([point[1] for point in x[0]]))
SortByTop(s) == Sorted(s, [i \in 1..Len(s) |-> TopOf(s[i])])

\* abs(y_center - last_y_center) <= self.line_y_threshold
SameLineAsLast(line_data, last) ==
    Abs(YCenter4(line_data.box) - YCenter4(last.box)) <= 4 * line_y_threshold

RECURSIVE JoinTexts(_, _)
JoinTexts(infos, k) == IF k = 0 THEN <<>> ELSE JoinTexts(infos, k - 1) \o infos[k].text

\* _merge_line_texts
MergeLineTexts(line_texts) ==
    IF Len(line_texts) = 1
    THEN Fragment(line_texts[1].box, line_texts[1].text)
    ELSE LET sorted_texts == Sorted(line_texts, [i \in 1..Len(line_texts) |-> LeftOf(line_texts[i])])
             n == Len(sorted_texts)
             x_min == SetMin({XMin(sorted_texts[k].box) : k \in 1..n})
             x_max == SeqMax([k \in 1..n |-> XMax(sorted_texts[k].box)])
             y_min == SetMin({YMin(sorted_texts[k].box) : k \in 1..n})
             y_max == SeqMax([k \in 1..n |-> YMax(sorted_texts[k].box)])
             merged_bbox == <<<<x_min, y_min>>, <<x_max, y_min>>,
                              <<x_max, y_max>>, <<x_min, y_max>>>>
         IN  Fragment(merged_bbox, JoinTexts(sorted_texts, n))

\* the loop of merge_same_line_texts from fragment k of sorted_result on
RECURSIVE MergeFrom(_, _, _, _)
MergeFrom(sorted_result, k, current_line_texts, merged_result) ==
    IF k > Len(sorted_result)
    THEN IF current_line_texts # <<>>
         THEN Append(merged_result, MergeLineTexts(current_line_texts))
         ELSE merged_result
    ELSE LET line_data == sorted_result[k] IN
         IF current_line_texts = <<>>
         THEN MergeFrom(sorted_result, k + 1, <<line_data>>, merged_result)
         ELSE IF SameLineAsLast(line_data, current_line_texts[Len(current_line_texts)])
         THEN MergeFrom(sorted_result, k + 1, Append(current_line_texts, line_data),
                        merged_result)
         ELSE MergeFrom(sorted_result, k + 1, <<line_data>>,
                        Append(merged_result, MergeLineTexts(current_line_texts)))

MergeSameLineTexts(fragments) ==
    IF fragments = <<>> THEN <<>>
    ELSE MergeFrom(SortByTop(fragments), 1, <<>>, <<>>)

\* the recognizer's boxes: upright rectangles 40 wide
Rect(x_min, y_min, h) ==
    <<<<x_min, y_min>>, <<x_min + 40, y_min>>, <<x_min + 40, y_min + h>>, <<x_min, y_min + h>>>>
FragmentTops == {0, 2, 4, 9, 18}
FragmentHeights == {10, 38}
FragmentLefts == {0, 50}
\* fragment i of the page carries the one-token text <<i>>
PageFragments(n) ==
    {[i \in 1..n |-> Fragment(Rect(g[i][1], g[i][2], g[i][3]), <<i>>)] :
        g \in [1..n -> FragmentLefts \X FragmentTops \X FragmentHeights]}

\* one page given to the merger, as analyze_page does (layout_analyzer.py 182)
\* the analyzer at rest while one of its stages is run on its own
AnalyzerIdle(at) ==
    /\ images = <<>>
    /\ prefer_chinese_primary = TRUE
    /\ all_ocr_results = <<>>
    /\ pc = at
    /\ page_idx = 1
    /\ idx = 0
    /\ recs = <<>>
    /\ questions = <<>>
    /\ seen_start_positions = {}
    /\ current_question = 0
    /\ is_chinese_question = FALSE
    /\ nested_sub_numbers = <<>>
    /\ all_questions = <<>>
    /\ pending_cross_page_question = None
    /\ skipped = {}
    /\ page_tail = <<>>
    /\ pending_seen = None

analyzer_vars ==
    <<images, prefer_chinese_primary, all_ocr_results, page_idx, idx, recs, questions,
      seen_start_positions, current_question, is_chinese_question, nested_sub_numbers,
      all_questions, pending_cross_page_question, skipped, page_tail, pending_seen>>

\* the fragments of one page, in any order the recognizer may give them
InitMerge ==
    /\ AnalyzerIdle("merge")
    /\ page_ocr_result \in UNION {PageFragments(n) : n \in 0..MaxFragments}
    /\ merged_ocr_result = <<>>
    /\ line_text = <<>>
    /\ is_sub = None

\* merged_ocr_result = self.text_merger.merge_same_line_texts(ocr_result)
MergePage ==
    /\ pc = "merge"
    /\ merged_ocr_result' = MergeSameLineTexts(page_ocr_result)
    /\ pc' = "merged"
    /\ UNCHANGED <<analyzer_vars, page_ocr_result, line_text, is_sub>>

\* --------------------------------------------------------- pattern matcher
\* A text is a sequence of characters, each known by the class the default
\* sub_question pattern ^\d+\.\S+ tells apart: a digit (\d), the dot (\.),
\* white space (not \S), and two kinds of other characters (both \S), a
\* punctuation mark and a letter.
Chars == {"digit", "dot", "space", "mark", "letter"}

\* text.strip()
RECURSIVE LStrip(_)
LStrip(t) == IF t # <<>> /\ Head(t) = "space" THEN LStrip(Tail(t)) ELSE t
RECURSIVE RStrip(_)
RStrip(t) ==
    IF t # <<>> /\ t[Len(t)] = "space" THEN RStrip(SubSeq(t, 1, Len(t) - 1)) ELSE t
Strip(t) == RStrip(LStrip(t))

\* the characters \d+ takes at the start of t
RECURSIVE LeadingDigits(_)
LeadingDigits(t) ==
    IF t # <<>> /\ Head(t) = "digit" THEN 1 + LeadingDigits(Tail(t)) ELSE 0

\* re.compile(r'^\d+\.\S+').match(t)
MatchSubQuestionPattern(t) ==
    LET n == LeadingDigits(t)
    IN  /\ n >= 1
        /\ Len(t) >= n + 2
        /\ t[n + 1] = "dot"
        /\ t[n + 2] # "space"

\* PatternMatcher.is_sub_question with the default configuration
IsSubQuestion(t) == MatchSubQuestionPattern(Strip(t))

Texts(n) == UNION {[1..k -> Chars] : k \in 0..n}

\* one line text given to the pattern matcher
InitMatch ==
    /\ AnalyzerIdle("match")
    /\ page_ocr_result = <<>>
    /\ merged_ocr_result = <<>>
    /\ line_text \in Texts(MaxTextLen)
    /\ is_sub = None

\* is_current_sub = self.pattern_matcher.is_sub_question(text)
ClassifyLine ==
    /\ pc = "match"
    /\ is_sub' = Some(IsSubQuestion(line_text))
    /\ pc' = "matched"
    /\ UNCHANGED <<analyzer_vars, page_ocr_result, merged_ocr_result, line_text>>

\* ------------------------------------------------------------ specifications
Steps ==
    \/ StartExtraction
    \/ BeginPage
    \/ ExtractLine
    \/ FinishPage
    \/ FlushPending
    \/ RefineTextHeights
    \/ ResolveEnds
    \/ ResolveEndsAgain

Next == CollectPage \/ Steps
NextDup == CollectDupPage \/ Steps
NextCross == CollectCrossPage \/ Steps
NextHeights == CollectHeightsPage \/ Steps

Spec == Init /\ [][Next]_vars
SpecDup == InitDup /\ [][NextDup]_vars
SpecCross == InitCross /\ [][NextCross]_vars
SpecHeights == InitHeights /\ [][NextHeights]_vars
NextFar == CollectFarPage \/ Steps
SpecFar == InitFar /\ [][NextFar]_vars
NextLong == CollectLongPage \/ Steps
SpecLong == InitLong /\ [][NextLong]_vars
NextRow == CollectRowPage \/ Steps
SpecRow == InitRow /\ [][NextRow]_vars
NextTall == CollectTallPage \/ Steps
SpecTall == InitTall /\ [][NextTall]_vars
NextMerge == MergePage
SpecMerge == InitMerge /\ [][NextMerge]_vars
NextMatch == ClassifyLine
SpecMatch == InitMatch /\ [][NextMatch]_vars

\* ------------------------------------------------------------------ claims
Ids == 1..Len(recs)
Listed == {all_questions[i][2] : i \in 1..Len(all_questions)}
Occurrences(id) == Cardinality({i \in 1..Len(all_questions) : all_questions[i][2] = id})
StrictlyIncreasing(s) == \A i \in 1..(Len(s) - 1) : s[i] < s[i + 1]

\* C1: once end resolution has run, every record of the output has
\* end_y > start_y and start_y >= 0.
C1_EndAfterStart ==
    pc = "done" =>
        \A id \in Listed :
            /\ ~IsNone(recs[id].end_y)
            /\ Val(recs[id].end_y) > recs[id].start_y
            /\ recs[id].start_y >= 0

\* C2: the nested_sub_numbers of every record are strictly increasing, at
\* every point of the extraction and of the cross-page merge.
C2_NestedStrictlyIncreasing ==
    \A id \in Ids : StrictlyIncreasing(recs[id].nested_sub_numbers)

\* C3: every record the extractor opened is in the final list exactly once.
C3_EveryRecordOnce ==
    pc = "done" => \A id \in Ids : Occurrences(id) = 1

\* C4: a pending cross-page merge is never replaced by another record's: the
\* slot takes a new record only when it is empty.
C4_PendingNotReplaced ==
    [][(~IsNone(pending_cross_page_question) /\ ~IsNone(pending_cross_page_question'))
         => pending_cross_page_question'[1] = pending_cross_page_question[1]]_vars

\* C5: two lines of one page with the same integer start_y never both open a
\* record: the records of a page have pairwise distinct start_y.
C5_DistinctStartPositions ==
    \A a \in Ids : \A b \in Ids :
        (a # b /\ recs[a].page = recs[b].page) => recs[a].start_y # recs[b].start_y

\* an opening line was skipped at a position already used on its page, and the
\* document has been analysed to the end
C5_Witness == pc = "done" /\ skipped # {}

\* C6: a line skipped by the duplicate-position guard mutates no extractor
\* state (open record, nested accumulator, seen set, emitted list).
C6_DuplicateSkipMutatesNothing ==
    [][skipped' # skipped
         => UNCHANGED <<current_question, nested_sub_numbers, seen_start_positions,
                        questions>>]_vars

\* C7: no record ever has both cross_page and cross_page_merged.
C7_CrossPageFlagsExclusive ==
    \A id \in Ids : ~(recs[id].cross_page /\ recs[id].cross_page_merged)

\* a record flagged cross_page by the extractor has been merged by the resolver
C7_Witness ==
    \E id \in Ids : recs[id].cross_page_merged /\ ~IsNone(recs[id].cross_page_end_page)

\* C8: the end-resolution loop run again on the finalized list changes no
\* end_y and no end_page.
C8_EndResolutionIdempotent ==
    [][(pc = "done" /\ pc' = "redone")
         => \A id \in Ids : /\ recs'[id].end_y = recs[id].end_y
                            /\ recs'[id].end_page = recs[id].end_page]_vars

\* the loop has run twice on a list of several records, one ended by its
\* early_end_y and another by the page-bottom rule
C8_Witness ==
    /\ pc = "redone"
    /\ \E a \in Listed : \E b \in Listed :
          /\ a # b
          /\ ~IsNone(recs[a].early_end_y) /\ recs[a].end_y = recs[a].early_end_y
          /\ IsNone(recs[b].early_end_y)
          /\ recs[b].end_y = Some(PageBottom(images[recs[b].page].height))

\* Scenario B at page p: the last line of page p is the nested line n, accepted
\* into the record Q left open on the page, n is the largest number Q holds,
\* and page p + 1 starts with the nested line n + 1.
ScenarioB(p) ==
    /\ p <= Len(page_tail)
    /\ p + 1 <= total_pages
    /\ all_ocr_results[p] # <<>>
    /\ all_ocr_results[p + 1] # <<>>
    /\ LET last == all_ocr_results[p][Len(all_ocr_results[p])]
       IN  /\ last.cls = "nested"
           /\ page_tail[p].open # 0
           /\ page_tail[p].numbers # <<>>
           /\ SeqMax(page_tail[p].numbers) = last.num
           /\ IsNestedNumber(all_ocr_results[p + 1][1], last.num + 1)

ScenarioB_n(p) == all_ocr_results[p][Len(all_ocr_results[p])].num

\* the nested line n is among the first lines of no page after page p
NotLeadingAfter(p, n) ==
    \A r \in (p + 1)..total_pages :
        \A k \in 1..Min2(ProbeLines, Len(all_ocr_results[r])) :
            ~IsNestedNumber(all_ocr_results[r][k], n)

\* what Scenario B promises of Q: flagged after page p, merged at the end
ScenarioB_Outcome(p) ==
    LET Q == recs[page_tail[p].open]
    IN  /\ (pc = "page" /\ page_idx = p + 1)
              => (Q.cross_page /\ Q.cross_page_to = Some(p + 1))
        /\ pc = "done"
              => /\ Q.cross_page_merged
                 /\ ~Q.cross_page
                 /\ Q.cross_page_end_page = Some(p + 1)
                 /\ \E i \in 1..Len(Q.nested_sub_numbers) :
                        Q.nested_sub_numbers[i] = ScenarioB_n(p) + 1

\* C9 as stated: in Scenario B with no nested line n + 2 leading a page after
\* p + 1, Q is flagged cross_page to p + 1 after page p and ends merged, with
\* cross_page_end_page = p + 1 and n + 1 among its numbers.
C9_ScenarioB_AsStated ==
    \A p \in 1..MaxCrossPages :
        (ScenarioB(p) /\ NotLeadingAfter(p + 1, ScenarioB_n(p) + 2)) => ScenarioB_Outcome(p)

\* the numbers Q holds once page p + 1 has been merged into it
ScenarioB_Merged(p) == MergedOnPage(page_tail[p].numbers, all_ocr_results[p + 1])

\* C9 (amended): in Scenario B, when the number after the last one merged on
\* page p + 1 is among the first three lines of neither of the next two pages,
\* Q is flagged cross_page to p + 1 after page p and ends merged, with
\* cross_page_end_page = p + 1 and n + 1 among its numbers.
C9_ScenarioB ==
    \A p \in 1..MaxCrossPages :
        (ScenarioB(p) /\ ContinuationPages(p + 1, ExpectedNext(ScenarioB_Merged(p))) = {})
            => ScenarioB_Outcome(p)

\* a Scenario B document analysed to the end in which page p + 1 goes on past
\* n + 1 and a page follows that does not continue the sequence
C9_Witness ==
    /\ pc = "done"
    /\ \E p \in 1..MaxCrossPages :
          /\ ScenarioB(p)
          /\ p + 2 <= total_pages
          /\ ContinuationPages(p + 1, ExpectedNext(ScenarioB_Merged(p))) = {}
          /\ Len(ScenarioB_Merged(p)) > Len(page_tail[p].numbers) + 1
          /\ recs[page_tail[p].open].cross_page_merged

\* Scenario A: one page; a chinese heading, then sub and plain lines, then the
\* nested lines 1..k in order, each within look_ahead_count lines of the next,
\* the last of them closing the page.
ScenarioA_Nested == {i \in 1..Len(all_ocr_results[1]) : all_ocr_results[1][i].cls = "nested"}

ScenarioA ==
    /\ total_pages = 1
    /\ Len(all_ocr_results) = 1
    /\ prefer_chinese_primary
    /\ LET lines == all_ocr_results[1]
       IN  /\ Len(lines) >= 2
           /\ lines[1].cls = "chinese"
           /\ \A i \in 2..Len(lines) : lines[i].cls \in {"sub", "plain", "nested"}
           /\ \A i \in 1..(Len(lines) - 1) : lines[i].y_min < lines[i + 1].y_min
           /\ lines[Len(lines)].cls = "nested"
           /\ \A i \in ScenarioA_Nested :
                  /\ lines[i].num = Cardinality({j \in ScenarioA_Nested : j <= i})
                  /\ i < Len(lines)
                        => \E j \in ScenarioA_Nested : i < j /\ j <= i + look_ahead_count

\* C10: a Scenario A document yields exactly one record, of class chinese, with
\* nested_sub_numbers = <<1, ..., k>>, no early_end_y and end_y at the page
\* bottom int(0.97 * page height).
C10_ScenarioA ==
    (ScenarioA /\ pc = "done") =>
        /\ Len(all_questions) = 1
        /\ LET q == recs[all_questions[1][2]]
           IN  /\ q.question_type = "chinese"
               /\ q.nested_sub_numbers = [i \in 1..Cardinality(ScenarioA_Nested) |-> i]
               /\ IsNone(q.early_end_y)
               /\ q.end_y = Some(PageBottom(images[1].height))

\* a Scenario A document with a sub line under the heading and two nested
\* lines has been analysed to the end
C10_Witness ==
    /\ ScenarioA
    /\ pc = "done"
    /\ Cardinality(ScenarioA_Nested) >= 2
    /\ \E i \in 1..Len(all_ocr_results[1]) : all_ocr_results[1][i].cls = "sub"

\* ----------------------------------------------------------------
\* Scenario C at lines i, i + 1, i + 2 of page p: a sub line, a plain line, a
\* sub line.  a is a record the first sub line opened, b one the second opened.
ScenarioC(p, i) ==
    /\ p <= Len(all_ocr_results)
    /\ i + 2 <= Len(all_ocr_results[p])
    /\ all_ocr_results[p][i].cls = "sub"
    /\ all_ocr_results[p][i + 1].cls = "plain"
    /\ all_ocr_results[p][i + 2].cls = "sub"

OpenedAt(id, p, i) ==
    /\ recs[id].page = p
    /\ recs[id].start_y = all_ocr_results[p][i].y_min
    /\ recs[id].question_type = "sub"

\* the extractor has handled line i of page p
Handled(p, i) == page_idx > p \/ (page_idx = p /\ pc = "lines" /\ idx >= i) \/ pc \notin {"collect", "page", "lines"}

C12_OrphanNestedDropped ==
    [][(/\ pc = "lines"
        /\ idx < Len(all_ocr_results[page_idx])
        /\ all_ocr_results[page_idx][idx + 1].cls = "nested"
        /\ current_question = 0)
         => /\ recs' = recs
            /\ questions' = questions
            /\ seen_start_positions' = seen_start_positions
            /\ current_question' = 0
            /\ pc' = "lines"
            /\ idx' = idx + 1]_vars

\* a page that starts with a nested line, dropped, and whose second line has
\* opened a record
C12_Witness ==
    /\ pc = "lines"
    /\ idx = 2
    /\ all_ocr_results[page_idx][1].cls = "nested"
    /\ current_question # 0
    /\ recs[current_question].start_y = all_ocr_results[page_idx][2].y_min
    /\ questions = <<>>

\* the last entry of the output list
LastListed == recs[all_questions[Len(all_questions)][2]]

\* C13: the last record of the output, when it has no cross-page flag and no
\* valid early_end_y, ends at int(0.97 * height of the last page).
C13_LastRecordEnd ==
    (pc = "done" /\ all_questions # <<>>) =>
        ((~LastListed.cross_page /\ ~LastListed.cross_page_merged
           /\ IsNone(LastListed.early_end_y))
            => LastListed.end_y = Some(PageBottom(images[total_pages].height)))

\* C14: a page without lines contributes no record and does not stop the
\* page loop: both steps of its iteration leave the heap, the list of emitted
\* records and the pending merge as they were, its own list of records is
\* empty, and the loop moves on to the next page (or to the end of the loop).
C14_EmptyPageSkipped ==
    [][(/\ pc \in {"page", "lines"}
        /\ page_idx <= total_pages
        /\ all_ocr_results[page_idx] = <<>>)
         => /\ recs' = recs
            /\ all_questions' = all_questions
            /\ pending_cross_page_question' = pending_cross_page_question
            /\ questions' = <<>>
            /\ pc = "page" => (pc' = "lines" /\ page_idx' = page_idx)
            /\ pc = "lines" => /\ page_idx' = page_idx + 1
                               /\ pc' = IF page_idx < total_pages THEN "page" ELSE "flush"]_vars

\* a document analysed to the end with a page without lines between two pages
\* that both opened records
C14_Witness ==
    /\ pc = "done"
    /\ \E p \in 2..(total_pages - 1) :
          /\ all_ocr_results[p] = <<>>
          /\ \E a \in Listed : recs[a].page < p
          /\ \E b \in Listed : recs[b].page > p

\* C15: end resolution gives each record of the list the end of the first
\* rule that applies, in the order cross_page_merged, cross_page, valid
\* early_end_y: a merged record ends at its recorded cross-page end whatever
\* its early_end_y, an unmerged cross_page record at the bottom of its page,
\* and any other record with an early_end_y (which the pass leaves only when it
\* is above start_y) exactly at that y, whatever record follows it.
C15_EndRulePriority ==
    pc = "done" =>
        \A i \in 1..Len(all_questions) :
            LET page_num == all_questions[i][1]
                q == recs[all_questions[i][2]]
            IN  /\ q.cross_page_merged
                      => /\ ~IsNone(q.cross_page_end_y)
                         /\ q.end_y = q.cross_page_end_y
                         /\ q.end_page = q.cross_page_end_page
                /\ (~q.cross_page_merged /\ q.cross_page)
                      => /\ q.end_y = Some(PageBottom(images[page_num].height))
                         /\ q.end_page = Some(page_num)
                /\ (~q.cross_page_merged /\ ~q.cross_page /\ ~IsNone(q.early_end_y))
                      => /\ Val(q.early_end_y) > q.start_y
                         /\ q.end_y = q.early_end_y
                         /\ q.end_page = Some(page_num)

\* the pass has ended a merged record that also holds a valid early_end_y, at
\* another y than that one
C15_Witness ==
    /\ pc = "done"
    /\ \E a \in Listed :
          /\ recs[a].cross_page_merged
          /\ ~IsNone(recs[a].early_end_y)
          /\ Val(recs[a].early_end_y) > recs[a].start_y
          /\ recs[a].end_y # recs[a].early_end_y

\* C16: after end resolution a record of the list with no cross-page flag and
\* no early_end_y left, followed in the list by another entry, ends at the
\* successor's start_y less int(0.3 * the successor's text_height) on its own
\* page when the successor is on the same page, and otherwise at
\* int(0.97 * its own page's height) on its own page with potential_cross_page.
C16_NextRecordRules ==
    pc = "done" =>
        \A i \in 1..(Len(all_questions) - 1) :
            LET page_num == all_questions[i][1]
                q == recs[all_questions[i][2]]
                next_page == all_questions[i + 1][1]
                next_q == recs[all_questions[i + 1][2]]
            IN  (~q.cross_page /\ ~q.cross_page_merged /\ IsNone(q.early_end_y)
                   /\ all_questions[i + 1][2] # all_questions[i][2])
                    => IF next_page = page_num
                       THEN /\ q.end_y = Some(next_q.start_y - ((3 * next_q.text_height) \div 10))
                            /\ q.end_page = Some(page_num)
                       ELSE /\ q.end_y = Some(PageBottom(images[page_num].height))
                            /\ q.end_page = Some(page_num)
                            /\ q.potential_cross_page

\* two pages of different heights: a record followed on its page by a record
\* whose text_height was refined below the height of its opening line, and a
\* record followed by one on the other page
C16_Witness ==
    /\ pc = "done"
    /\ total_pages = 2
    /\ images[1].height # images[2].height
    /\ \E i \in 1..(Len(all_questions) - 1) : \E j \in 1..(Len(all_questions) - 1) :
          /\ all_questions[i][1] = all_questions[i + 1][1]
          /\ all_questions[i][2] # all_questions[i + 1][2]
          /\ \E k \in 1..Len(all_ocr_results[all_questions[i + 1][1]]) :
                LET line == all_ocr_results[all_questions[i + 1][1]][k]
                IN  /\ line.y_min = recs[all_questions[i + 1][2]].start_y
                    /\ line.y_max - line.y_min = TallH
                    /\ recs[all_questions[i + 1][2]].text_height = LineH
          /\ all_questions[j][1] # all_questions[j + 1][1]
          /\ recs[all_questions[j][2]].potential_cross_page

\* C17: the end-resolution pass is total and alone in setting ends: before it
\* no record has an end_y or an end_page, after it every record of the list
\* has both.
C17_EndResolutionTotal ==
    IF pc \in {"done", "redone"}
    THEN \A id \in Listed : ~IsNone(recs[id].end_y) /\ ~IsNone(recs[id].end_page)
    ELSE \A id \in Ids : IsNone(recs[id].end_y) /\ IsNone(recs[id].end_page)

\* the pass has run on a list that holds a record still flagged cross_page
\* (its merge never completed) next to other records
C17_Witness ==
    /\ pc = "done"
    /\ \E a \in Listed : \E b \in Listed :
          /\ a # b
          /\ recs[a].cross_page
          /\ ~recs[b].cross_page

\* ----------------------------------------------------------- C18, C19
\* the merged lines that hold fragment i of the page
LinesOf(i) ==
    {k \in 1..Len(merged_ocr_result) :
        \E t \in 1..Len(merged_ocr_result[k].text) : merged_ocr_result[k].text[t] = i}
TimesIn(i, k) ==
    Cardinality({t \in 1..Len(merged_ocr_result[k].text) : merged_ocr_result[k].text[t] = i})

\* C18: the merger's output is ordered by ascending y_min of the merged boxes
\* and every input fragment is part of exactly one output line.
C18_MergedOrderedAndComplete ==
    pc = "merged" =>
        /\ \A k \in 1..(Len(merged_ocr_result) - 1) :
              YMin(merged_ocr_result[k].box) <= YMin(merged_ocr_result[k + 1].box)
        /\ \A i \in 1..Len(page_ocr_result) :
              /\ Cardinality(LinesOf(i)) = 1
              /\ \A k \in LinesOf(i) : TimesIn(i, k) = 1

\* three fragments the recognizer gave out of order, merged into two lines
C18_Witness ==
    /\ pc = "merged"
    /\ Len(page_ocr_result) = 3
    /\ YMin(page_ocr_result[1].box) > YMin(page_ocr_result[2].box)
    /\ YMin(page_ocr_result[2].box) > YMin(page_ocr_result[3].box)
    /\ Len(merged_ocr_result) = 2
    /\ Len(merged_ocr_result[1].text) = 2

\* the two same-line criteria between fragments i and j of the page
CentersClose(i, j) ==
    Abs(YCenter4(page_ocr_result[i].box) - YCenter4(page_ocr_result[j].box))
        <= 4 * line_y_threshold
SpanOf(i) == YMax(page_ocr_result[i].box) - YMin(page_ocr_result[i].box)
SpansOverlap(i, j) ==
    LET top == IF YMin(page_ocr_result[i].box) >= YMin(page_ocr_result[j].box)
               THEN YMin(page_ocr_result[i].box) ELSE YMin(page_ocr_result[j].box)
        bottom == Min2(YMax(page_ocr_result[i].box), YMax(page_ocr_result[j].box))
        taller == IF SpanOf(i) >= SpanOf(j) THEN SpanOf(i) ELSE SpanOf(j)
    IN  bottom - top > 0 /\ 10 * (bottom - top) > 3 * taller
InOneLine(i, j) == LinesOf(i) = LinesOf(j)

\* C19: two fragments are in the same merged line whenever their centers are
\* closer than the threshold or their spans overlap by more than 30% of the
\* taller one, whatever lies between them; two fragments that meet neither
\* criterion are not joined through a chain of other fragments.
C19_PairwiseSameLine ==
    pc = "merged" =>
        \A i \in 1..Len(page_ocr_result) : \A j \in 1..Len(page_ocr_result) :
            /\ (CentersClose(i, j) \/ SpansOverlap(i, j)) => InOneLine(i, j)
            /\ (~CentersClose(i, j) /\ ~SpansOverlap(i, j)) => ~InOneLine(i, j)

\* ----------------------------------------------------------------- C20
\* t has a character other than white space and punctuation
HasContent(t) == \E k \in 1..Len(t) : t[k] \in {"digit", "letter"}
\* an integer, the separator, and content after it
StatedMinorHeading(t) ==
    LET n == LeadingDigits(t)
    IN  /\ n >= 1
        /\ Len(t) >= n + 2
        /\ t[n + 1] = "dot"
        /\ HasContent(SubSeq(t, n + 2, Len(t)))

\* C20: a line is a MinorHeading exactly when its stripped text starts with
\* an integer, a separator and at least one content character after it:
\* "integer, dot, space, text" is a MinorHeading and an integer followed only
\* by punctuation is not.
C20_MinorHeadingPattern ==
    pc = "matched" => (Val(is_sub) <=> StatedMinorHeading(Strip(line_text)))

\* ----------------------------------------------------------------- C21
PendingId == pending_cross_page_question[1]
\* the resolver runs on page page_idx with a merge pending
ResolverVisit == pc = "page" /\ pc' = "lines" /\ ~IsNone(pending_cross_page_question)
PendingTarget == Val(recs[PendingId].cross_page_to)

\* C21: once the resolver has visited a page at or after cross_page_to, the
\* pending merge is resolved or abandoned (the slot is empty), or it is kept
\* with a strictly larger cross_page_to; it does not stay pending on the
\* same target.
C21_PendingSettledAtTarget ==
    [][(ResolverVisit /\ page_idx >= PendingTarget)
        => \/ IsNone(pending_cross_page_question')
           \/ /\ pending_cross_page_question' = pending_cross_page_question
              /\ Val(recs'[PendingId].cross_page_to) > PendingTarget]_vars

\* ----------------------------------------------------------------- C22
\* the resolver step merged at least one nested number into the pending record
MergedSome ==
    /\ ResolverVisit
    /\ Len(recs'[PendingId].nested_sub_numbers) > Len(recs[PendingId].nested_sub_numbers)
\* nested number n stands among the first 3 lines of page p of the document
LeadsPage(p, n) ==
    /\ p <= total_pages
    /\ \E k \in 1..3 :
          /\ k <= Len(all_ocr_results[p])
          /\ all_ocr_results[p][k].cls = "nested"
          /\ all_ocr_results[p][k].num = n
NextExpected == SeqMax(recs'[PendingId].nested_sub_numbers) + 1

\* C22: after the resolver merged at least one nested number on page q, the
\* merge stays pending exactly when the next expected number leads page q+1
\* or q+2; then cross_page_to becomes that page and the record is not output;
\* otherwise the record is finalized on page q.
C22_ContinuationProbe ==
    [][MergedSome =>
        IF LeadsPage(page_idx + 1, NextExpected) \/ LeadsPage(page_idx + 2, NextExpected)
        THEN /\ pending_cross_page_question' = pending_cross_page_question
             /\ recs'[PendingId].cross_page
             /\ recs'[PendingId].cross_page_to =
                   Some(IF LeadsPage(page_idx + 1, NextExpected) THEN page_idx + 1
                        ELSE page_idx + 2)
             /\ all_questions' = all_questions
        ELSE /\ IsNone(pending_cross_page_question')
             /\ recs'[PendingId].cross_page_merged
             /\ recs'[PendingId].cross_page_end_page = Some(page_idx)
             /\ all_questions' = Append(all_questions,
                                        <<pending_cross_page_question[2], PendingId>>)]_vars

\* a merge that took a number on page 2 was kept for a continuation that
\* leads page 4 only (page 3 has no nested item), and was finalized there
C22_Witness ==
    /\ pc = "done"
    /\ total_pages = 4
    /\ \E id \in Listed :
          /\ recs[id].page = 1
          /\ recs[id].cross_page_merged
          /\ recs[id].cross_page_end_page = Some(4)
          /\ Len(recs[id].nested_sub_numbers) >= Len(page_tail[1].numbers) + 2
    /\ \A k \in 1..Len(all_ocr_results[3]) : all_ocr_results[3][k].cls # "nested"
    /\ Len(all_ocr_results[4]) = 1

\* ----------------------------------------------------------------- C23
\* C23: a merge still pending after the last page puts its record into the
\* output exactly once; the record ends at the bottom of its own page
\* (end_y = int(0.97 * height of that page), end_page = that page) and is not
\* marked cross_page_merged.
C23_PendingAtEndOfDocument ==
    ~IsNone(pending_cross_page_question) =>
        /\ pc \in {"refine", "ends", "done", "redone"} => Occurrences(PendingId) = 1
        /\ pc \in {"done", "redone"} =>
              /\ recs[PendingId].end_y = Some((97 * images[recs[PendingId].page].height) \div 100)
              /\ recs[PendingId].end_page = Some(recs[PendingId].page)
              /\ ~recs[PendingId].cross_page_merged

\* the run ended with a merge pending from page 1 of a two-page document whose
\* pages differ in height
C23_Witness ==
    /\ pc = "done"
    /\ ~IsNone(pending_cross_page_question)
    /\ total_pages = 2
    /\ recs[PendingId].page = 1
    /\ images[1].height # images[2].height

\* ----------------------------------------------------------------- C24
\* the line of ocr_result at which the scan from line i on, expecting the
\* nested number n, makes its last match (at if it makes none)
RECURSIVE LastMatchedLine(_, _, _, _)
LastMatchedLine(ocr_result, i, n, at) ==
    IF i > Len(ocr_result) THEN at
    ELSE IF ocr_result[i].cls = "nested" /\ ocr_result[i].num = n
         THEN LastMatchedLine(ocr_result, i + 1, n + 1, i)
         ELSE LastMatchedLine(ocr_result, i + 1, n, at)
\* the resolver step finalized the pending merge
MergeFinalized == ResolverVisit /\ IsNone(pending_cross_page_question')

\* C24: when the resolver finalizes a merge on page q, cross_page_end_page is
\* q and cross_page_end_y is the position of the line of page q at which the
\* last in-sequence nested item was matched, not of another line of the page
\* with the same number.
C24_EndAtLastMatchedLine ==
    [][MergeFinalized =>
        LET ocr_result == all_ocr_results[page_idx]
            at == LastMatchedLine(ocr_result, 1,
                                  ExpectedNext(recs[PendingId].nested_sub_numbers), 0)
        IN  /\ recs'[PendingId].cross_page_end_page = Some(page_idx)
            /\ recs'[PendingId].cross_page_end_y = Some(ocr_result[at].y_max)]_vars

\* ----------------------------------------------------------------- C25
\* the resolver found a merge pending on the current page, whose number is
\* smaller than the record's cross_page_to
SeenBeforeTarget ==
    /\ pc = "lines"
    /\ ~IsNone(pending_seen)
    /\ page_idx < Val(pending_seen[2].cross_page_to)

\* C25: while a merge is pending and the page being visited lies before the
\* record's cross_page_to, the resolver leaves the pending record as it is,
\* and the merge is still pending with the same record when the page has
\* been processed.
C25_PendingKeptBeforeTarget ==
    [][/\ (ResolverVisit /\ page_idx < PendingTarget)
            => /\ pending_cross_page_question' = pending_cross_page_question
               /\ recs'[PendingId] = recs[PendingId]
       /\ SeenBeforeTarget
            => /\ pending_cross_page_question' = pending_seen[1]
               /\ recs'[pending_seen[1][1]] = pending_seen[2]]_vars

\* ----------------------------------------------------------------- C26
\* the extractor has just accepted the nested item at line idx of the page
NestedAccepted ==
    /\ pc = "lines"
    /\ idx >= 1
    /\ all_ocr_results[page_idx][idx].cls = "nested"
    /\ current_question # 0
\* the lines its look-ahead examined, as <<page, line>>
LookaheadRead ==
    CheckNextNestedSubQuestion(idx, all_ocr_results[page_idx],
                               all_ocr_results[page_idx][idx].num, page_idx).read

\* C26: a look-ahead examines at most 3 lines, counted over the current and
\* the next page together; it reads the next page only when fewer than 3
\* lines remain on the current page after the item and page+1 <= total_pages;
\* it reads no page beyond page+1.
C26_LookaheadWindow ==
    NestedAccepted =>
        /\ Cardinality(LookaheadRead) <= 3
        /\ \A r \in LookaheadRead :
              \/ r[1] = page_idx /\ r[2] > idx /\ r[2] <= Len(all_ocr_results[page_idx])
              \/ /\ r[1] = page_idx + 1
                 /\ page_idx + 1 <= total_pages
                 /\ r[2] <= Len(all_ocr_results[page_idx + 1])
                 /\ Len(all_ocr_results[page_idx]) - idx < 3

\* a look-ahead that took the one line left on its page and two of the three
\* lines of the next page
C26_Witness ==
    /\ NestedAccepted
    /\ Cardinality({r \in LookaheadRead : r[1] = page_idx}) = 1
    /\ Cardinality({r \in LookaheadRead : r[1] = page_idx + 1}) = 2
    /\ Len(all_ocr_results[page_idx + 1]) = 3

\* ----------------------------------------------------------------- C27
\* the next line is a nested item n met with a record open, and n+1 is found
\* by its look-ahead on the next page only
FoundOnNextPageOnly ==
    /\ pc = "lines"
    /\ idx < Len(all_ocr_results[page_idx])
    /\ current_question # 0
    /\ LET ocr_result == all_ocr_results[page_idx]
           line == ocr_result[idx + 1]
           left == Len(ocr_result) - (idx + 1)
       IN  /\ line.cls = "nested"
           /\ left < 3
           /\ \A i \in (idx + 2)..Len(ocr_result) :
                 ~(ocr_result[i].cls = "nested" /\ ocr_result[i].num = line.num + 1)
           /\ page_idx + 1 <= total_pages
           /\ \E j \in 1..(3 - left) :
                 /\ j <= Len(all_ocr_results[page_idx + 1])
                 /\ all_ocr_results[page_idx + 1][j].cls = "nested"
                 /\ all_ocr_results[page_idx + 1][j].num = line.num + 1

CrossPageTargetInRange ==
    \A id \in Ids :
        recs[id].cross_page =>
            /\ ~IsNone(recs[id].cross_page_to)
            /\ recs[id].page < Val(recs[id].cross_page_to)
            /\ Val(recs[id].cross_page_to) <= total_pages

\* C27: when the look-ahead finds n+1 only on the next page, the open record
\* gets cross_page and cross_page_to = page+1, its early_end_y is left as it
\* was and it stays open; a record with cross_page always has
\* origin page < cross_page_to <= total_pages, also after the resolver has
\* advanced cross_page_to.
C27_CrossPageMark ==
    /\ []CrossPageTargetInRange
    /\ [][FoundOnNextPageOnly =>
            /\ recs'[current_question].cross_page
            /\ recs'[current_question].cross_page_to = Some(page_idx + 1)
            /\ recs'[current_question].early_end_y = recs[current_question].early_end_y
            /\ current_question' = current_question
            /\ questions' = questions]_vars

\* a record marked by the look-ahead on its page whose cross_page_to the
\* resolver has advanced past the next page
C27_Witness ==
    \E id \in Ids :
        /\ recs[id].cross_page
        /\ Val(recs[id].cross_page_to) = recs[id].page + 2
        /\ IsNone(recs[id].early_end_y)

\* ----------------------------------------------------------------- C28
\* the next line is a nested item met with a record open
NestedNext ==
    /\ pc = "lines"
    /\ idx < Len(all_ocr_results[page_idx])
    /\ current_question # 0
    /\ all_ocr_results[page_idx][idx + 1].cls = "nested"
\* the number after the one of that item
Wanted == all_ocr_results[page_idx][idx + 1].num + 1
\* the lines left on the page after the item
LinesLeft == Len(all_ocr_results[page_idx]) - (idx + 1)
FoundOnThisPage ==
    \E i \in (idx + 2)..(idx + 4) :
        /\ i <= Len(all_ocr_results[page_idx])
        /\ all_ocr_results[page_idx][i].cls = "nested"
        /\ all_ocr_results[page_idx][i].num = Wanted
FoundAcrossBreak ==
    /\ ~FoundOnThisPage
    /\ LinesLeft < 3
    /\ page_idx + 1 <= total_pages
    /\ \E j \in 1..(3 - LinesLeft) :
          /\ j <= Len(all_ocr_results[page_idx + 1])
          /\ all_ocr_results[page_idx + 1][j].cls = "nested"
          /\ all_ocr_results[page_idx + 1][j].num = Wanted
\* the y of the first line of the window on the current page
FirstWindowY == all_ocr_results[page_idx][idx + 2].y_min
OpenRecord == recs[current_question]
EarlyEndAfter == recs'[current_question].early_end_y

\* C28 as stated: the look-ahead records a boundary exactly when n+1 is found
\* neither on the current page nor across the page break; the value is the y
\* of the first line of the window on the current page, stored only if
\* strictly greater than start_y; when n+1 is found nothing is recorded.
C28_BoundaryIffNotFound_AsStated ==
    [][NestedNext =>
        IF ~FoundOnThisPage /\ ~FoundAcrossBreak
        THEN /\ LinesLeft > 0
             /\ EarlyEndAfter = IF FirstWindowY > OpenRecord.start_y
                                THEN Some(FirstWindowY)
                                ELSE OpenRecord.early_end_y
        ELSE EarlyEndAfter = OpenRecord.early_end_y]_vars

\* C28: the look-ahead of an accepted nested item n changes the record's
\* early_end_y only when n+1 is found neither on the current page nor across
\* the page break; then, if a line is left on the page, the record is not
\* marked cross_page, the y of the first line of the window (whatever its
\* class) is strictly greater than start_y and the record has no early_end_y
\* yet or a greater one, early_end_y becomes that y; in every other case
\* early_end_y is left as it was.
C28_BoundaryIffNotFound ==
    [][NestedNext =>
        IF /\ ~FoundOnThisPage /\ ~FoundAcrossBreak
           /\ LinesLeft > 0
           /\ ~OpenRecord.cross_page
           /\ FirstWindowY > OpenRecord.start_y
           /\ (IsNone(OpenRecord.early_end_y) \/ FirstWindowY < Val(OpenRecord.early_end_y))
        THEN EarlyEndAfter = Some(FirstWindowY)
        ELSE EarlyEndAfter = OpenRecord.early_end_y]_vars

\* the look-ahead of the nested item at line idx stored the y of the plain
\* line after it
C28_Witness ==
    /\ NestedAccepted
    /\ idx < Len(all_ocr_results[page_idx])
    /\ all_ocr_results[page_idx][idx + 1].cls = "plain"
    /\ recs[current_question].early_end_y = Some(all_ocr_results[page_idx][idx + 1].y_min)

\* ----------------------------------------------------------------- C29
\* C29: once a record's early_end_y is set, every change to it before the
\* end-resolution pass makes it smaller, in either primary-type mode.
C29_EarlyEndOnlyTightened ==
    [][(pc \in {"page", "lines"}) =>
        \A id \in Ids :
            ~IsNone(recs[id].early_end_y) =>
                (\/ recs'[id].early_end_y = recs[id].early_end_y
                 \/ (~IsNone(recs'[id].early_end_y)
                       /\ Val(recs'[id].early_end_y) < Val(recs[id].early_end_y)))]_vars

\* ----------------------------------------------------------------- C30
\* the record listed at position i, had it reached the end-resolution pass
\* holding early_end_y = e
HeldWith(i, e) == [recs EXCEPT ![all_questions[i][2]].early_end_y = e]
\* what the end-resolution pass makes of the record listed at position i
EndOf(rs, i) ==
    LET q == ResolveEndOf(rs, i)[all_questions[i][2]]
    IN  <<q.early_end_y, q.end_y, q.end_page, q.potential_cross_page>>

\* C30: a provisional boundary that is not strictly greater than start_y never
\* determines a record's end: no record ever holds an early_end_y <= start_y,
\* and the end-resolution pass, given a record that holds one, clears it and
\* computes end_y by the next-record and page-bottom rules exactly as for a
\* record without a boundary.
C30_InvalidBoundaryDiscarded ==
    /\ \A id \in Ids :
          ~IsNone(recs[id].early_end_y) => Val(recs[id].early_end_y) > recs[id].start_y
    /\ pc = "ends" =>
          \A i \in 1..Len(all_questions) :
              LET q == recs[all_questions[i][2]]
              IN  (~q.cross_page /\ ~q.cross_page_merged) =>
                      \A e \in {0, q.start_y - 1, q.start_y} :
                          EndOf(HeldWith(i, Some(e)), i) = EndOf(HeldWith(i, None), i)

\* a record took a nested item whose look-ahead window starts on the record's
\* own row: the boundary was not stored and the record runs to the page bottom
C30_Witness ==
    /\ pc = "done"
    /\ \E i \in 1..Len(all_questions) :
          LET page_num == all_questions[i][1]
              q == recs[all_questions[i][2]]
              ocr_result == all_ocr_results[page_num]
          IN  /\ Len(ocr_result) = 3
              /\ ocr_result[2].cls = "nested"
              /\ ocr_result[3].cls = "plain"
              /\ ocr_result[3].y_min = q.start_y
              /\ q.nested_sub_numbers = <<ocr_result[2].num>>
              /\ IsNone(q.early_end_y)
              /\ q.end_y = Some(PageBottom(images[page_num].height))

\* ----------------------------------------------------------------- C31
\* the next line is a minor heading, in the default mode
MinorNext ==
    /\ pc = "lines"
    /\ idx < Len(all_ocr_results[page_idx])
    /\ prefer_chinese_primary
    /\ all_ocr_results[page_idx][idx + 1].cls = "sub"
ChineseOpen ==
    /\ current_question # 0
    /\ recs[current_question].question_type = "chinese"

\* C31: in the default mode a minor heading met while a chinese-class record is
\* open changes neither current_question, nested_sub_numbers, the seen set nor
\* the emitted list; met when no chinese-class record is open it emits the
\* current record, if any, and opens a new sub-class record with no nested
\* numbers.
C31_MinorHeadingStep ==
    [][MinorNext =>
        IF ChineseOpen
        THEN UNCHANGED <<current_question, nested_sub_numbers,
                         seen_start_positions, questions, recs>>
        ELSE /\ questions' = IF current_question # 0
                             THEN Append(questions, current_question)
                             ELSE questions
             /\ Len(recs') = Len(recs) + 1
             /\ current_question' = Len(recs')
             /\ recs'[current_question'].question_type = "sub"
             /\ recs'[current_question'].nested_sub_numbers = <<>>
             /\ nested_sub_numbers' = <<>>]_vars

\* ----------------------------------------------------------------- C32
\* the next line is a question-type marker met with a record open that holds
\* an early_end_y
MarkerClosesBounded ==
    /\ pc = "lines"
    /\ idx < Len(all_ocr_results[page_idx])
    /\ all_ocr_results[page_idx][idx + 1].cls = "other"
    /\ current_question # 0
    /\ ~IsNone(recs[current_question].early_end_y)
MarkerY == all_ocr_results[page_idx][idx + 1].y_min
\* the extractor's state, had the open record held early_end_y = e
OpenHeld(e) ==
    [ExtractorState EXCEPT !.recs[current_question].early_end_y = Some(e)]
\* the open record after the marker's step from that state
AfterMarker(e) ==
    LineStep(OpenHeld(e), all_ocr_results[page_idx][idx + 1], idx + 1,
             all_ocr_results[page_idx], page_idx).recs[current_question]

\* C32: a question-type marker at y that closes an open record holding an
\* early_end_y emits the record with early_end_y <= y: a stored value greater
\* than y is replaced by y before the record is emitted, any other stored
\* value is left unchanged.
C32_MarkerCorrectsBoundary ==
    [][MarkerClosesBounded =>
        /\ questions' = Append(questions, current_question)
        /\ recs'[current_question].early_end_y =
              Some(Min2(Val(recs[current_question].early_end_y), MarkerY))
        /\ \A e \in {MarkerY - 1, MarkerY, MarkerY + 1, MarkerY + LineGap} :
              AfterMarker(e).early_end_y = IF e > MarkerY THEN Some(MarkerY) ELSE Some(e)]_vars

\* a question-type marker has just closed a record that holds an early_end_y
\* and opened its own
C32_Witness ==
    /\ pc = "lines"
    /\ idx > 0
    /\ all_ocr_results[page_idx][idx].cls = "other"
    /\ current_question # 0
    /\ recs[current_question].start_y = all_ocr_results[page_idx][idx].y_min
    /\ recs[current_question].question_type = "other"
    /\ Len(questions) > 0
    /\ questions[Len(questions)] # current_question
    /\ ~IsNone(recs[questions[Len(questions)]].early_end_y)
    /\ Val(recs[questions[Len(questions)]].early_end_y)
          <= all_ocr_results[page_idx][idx].y_min

\* ----------------------------------------------------------------- C33
\* the lines of the origin page of the record listed at position i that lie at
\* or below its start and above every later record opened on that page
OwnLines(i) ==
    LET page_num == all_questions[i][1]
        q == recs[all_questions[i][2]]
        later == {recs[all_questions[j][2]].start_y : j \in
                    {k \in 1..Len(all_questions) :
                        /\ all_questions[k][1] = page_num
                        /\ recs[all_questions[k][2]].start_y > q.start_y}}
    IN  {k \in 1..Len(all_ocr_results[page_num]) :
            /\ all_ocr_results[page_num][k].y_min >= q.start_y
            /\ \A y \in later : all_ocr_results[page_num][k].y_min < y}
OwnHeights(i) ==
    LET ocr_result == all_ocr_results[all_questions[i][1]]
    IN  {ocr_result[k].y_max - ocr_result[k].y_min : k \in OwnLines(i)}
          \ {h \in Int : h <= 0}

\* C33: text heights are refined for every record while no record has an end
\* yet, and the refinement sets each record's text_height to the smallest
\* positive height among the lines of its origin page that lie in its span;
\* the lines of later questions of the page do not lower it, and a record
\* with no such line keeps the height of its opening line.
C33_TextHeightFromOwnSpan ==
    [][(pc = "refine") =>
        \A i \in 1..Len(all_questions) :
            LET id == all_questions[i][2]
            IN  /\ IsNone(recs[id].end_y)
                /\ IsNone(recs'[id].end_y)
                /\ recs'[id].text_height = IF OwnHeights(i) # {}
                                           THEN SetMin(OwnHeights(i))
                                           ELSE recs[id].text_height]_vars

\* ----------------------------------------------------------------- C34
\* the record listed at position i
Out(i) == recs[all_questions[i][2]]
Precedes(a, b) == a.page < b.page \/ (a.page = b.page /\ a.start_y < b.start_y)

\* C34: the final list is in document order: each record starts strictly
\* before the record listed after it, by page and then by start_y, also when
\* a record flagged cross_page is followed by records opened on its page.
C34_DocumentOrder ==
    pc = "done" =>
        \A i \in 1..(Len(all_questions) - 1) : Precedes(Out(i), Out(i + 1))

\* ----------------------------------------------------------------- C35
\* the lines of the page being extracted whose numbers the resolver merged into
\* the pending record at the top of the page
ResolverTook ==
    IF IsNone(pending_seen) THEN {}
    ELSE LET q == pending_seen[2]
             ocr_result == all_ocr_results[page_idx]
             target == IF IsNone(q.cross_page_to) THEN page_idx ELSE Val(q.cross_page_to)
             upto(i) == Len(MergedOnPage(q.nested_sub_numbers, SubSeq(ocr_result, 1, i)))
         IN  IF page_idx >= target
             THEN {i \in 1..Len(ocr_result) : upto(i) > upto(i - 1)}
             ELSE {}
\* line i of the page being extracted opens a record or, as a minor heading
\* under a major one, continues it
IsMarker(i) == all_ocr_results[page_idx][i].cls \in {"chinese", "sub", "other"}

\* C35: a nested item contributes its number to at most one record: an item
\* that the resolver merged into the pending record is not accumulated into a
\* record opened on the continuation page, and the resolver merges no item
\* that lies after an opening marker of that page.
C35_NestedItemInOneRecord ==
    [][(pc = "lines" /\ idx < Len(all_ocr_results[page_idx])) =>
        /\ (all_ocr_results[page_idx][idx + 1].cls = "nested" /\ current_question # 0)
              => (idx + 1) \notin ResolverTook
        /\ \A i \in ResolverTook : \A k \in 1..(i - 1) : ~IsMarker(k)]_vars

\* ----------------------------------------------------------------- C36
\* C36: a record with cross_page_merged set has cross_page_end_y set and a
\* cross_page_end_page after its origin page and within the document, so the
\* end-resolution pass ends it at the recorded y and never at 97% of the end
\* page's height for want of one.
C36_MergedHasExactEnd ==
    \A id \in Ids :
        recs[id].cross_page_merged =>
            /\ ~IsNone(recs[id].cross_page_end_y)
            /\ ~IsNone(recs[id].cross_page_end_page)
            /\ recs[id].page < Val(recs[id].cross_page_end_page)
            /\ Val(recs[id].cross_page_end_page) <= total_pages
            /\ (pc \in {"done", "redone"} /\ id \in Listed) =>
                   /\ recs[id].end_y = recs[id].cross_page_end_y
                   /\ recs[id].end_page = recs[id].cross_page_end_page

\* a merged record was ended at the line of its last item, two pages after
\* its origin page
C36_Witness ==
    /\ pc = "done"
    /\ \E i \in 1..Len(all_questions) :
          /\ Out(i).cross_page_merged
          /\ Out(i).cross_page_end_page = Some(Out(i).page + 2)
          /\ Out(i).end_y = Out(i).cross_page_end_y
          /\ Out(i).end_y # Some(PageBottom(images[Out(i).page + 2].height))

\* ----------------------------------------------------------------- C37
\* the nested items of the record listed at position i: the nested lines of
\* its own stretch of the page whose numbers it holds
ItemLines(i) ==
    LET ocr_result == all_ocr_results[all_questions[i][1]]
    IN  {k \in OwnLines(i) :
            /\ ocr_result[k].cls = "nested"
            /\ \E n \in 1..Len(Out(i).nested_sub_numbers) :
                  Out(i).nested_sub_numbers[n] = ocr_result[k].num}

\* C37: every nested item held by a finalized record that is not cross-page
\* lies inside the record's span, start_y < y < end_y: a boundary stored by an
\* earlier look-ahead does not stay above an item accepted later.
C37_ItemsInsideSpan ==
    pc = "done" =>
        \A i \in 1..Len(all_questions) :
            (~Out(i).cross_page /\ ~Out(i).cross_page_merged) =>
                \A k \in ItemLines(i) :
                    LET y == all_ocr_results[all_questions[i][1]][k].y_min
                    IN  Out(i).start_y < y /\ y < Val(Out(i).end_y)

\* ----------------------------------------------------------------- C38
\* C38: the finalized spans of two records that start on one page do not
\* overlap: when a starts above b and ends on that page, a ends at or above
\* the start of b, also when a is still flagged cross_page or was ended at
\* the page bottom.
C38_SpansDisjoint ==
    pc = "done" =>
        \A i, j \in 1..Len(all_questions) :
            (/\ Out(i).page = Out(j).page
             /\ Out(i).start_y < Out(j).start_y
             /\ Out(i).end_page = Some(Out(i).page))
                => Val(Out(i).end_y) <= Out(j).start_y

\* ----------------------------------------------------------------- C39
\* C39: end_page of a finalized record is the page whose coordinates end_y is
\* in: the record's own page unless it is cross_page_merged, the last record
\* of the list included, and cross_page_end_page when it is.
C39_EndPageOfEndY ==
    pc = "done" =>
        \A i \in 1..Len(all_questions) :
            Out(i).end_page = IF Out(i).cross_page_merged
                              THEN Out(i).cross_page_end_page
                              ELSE Some(Out(i).page)

====
